---- MODULE Spec2Model ----
(***************************************************************************)
(* Model of package session (c9845/session): a Config that is validated,   *)
(* bound to a gorilla/sessions CookieStore by Init, and then used to get,  *)
(* write, extend and destroy cookie-stored sessions for HTTP requests.     *)
(*                                                                         *)
(* Strings that the code inspects character by character (Domain, Path)    *)
(* are sequences of one-character strings; strings of which the code only  *)
(* takes the length or compares (keys, cookie names, values) are TLA+      *)
(* strings.  Durations are in milliseconds.                                *)
(***************************************************************************)
EXTENDS Integers, Sequences, FiniteSets, TLC

VARIABLES
    config,     \* the package level Config (fields and store)
    now,        \* wall clock, seconds
    cookie,     \* cookie[r]: the session cookie request r presents, or NoCookie
    registry,   \* registry[r]: sessions gorilla has cached for request r, by name
    resp,       \* resp[r]: the last Set-Cookie written to r's ResponseWriter
    ret,        \* what the last call was and what it returned
    rand,       \* number of random keys drawn so far
    steps,      \* number of calls and events so far, validate and Init aside
    hist,       \* history: which cookies were sealed since the last key change
    inflight    \* calls of Init and Keys that have not returned yet

vars == <<config, now, cookie, registry, resp, ret, rand, steps, hist, inflight>>

-----------------------------------------------------------------------------
(* Bounds *)

MaxStrLen == 2
MaxSteps == 4

-----------------------------------------------------------------------------
(* Constants of the program *)

Second == 1000
Hour == 3600 * Second

defaultDomain == <<".">>
defaultPath == <<"/">>
defaultMaxAge == 1 * Hour
defaultHTTPOnly == TRUE
defaultSecure == FALSE
SameSiteDefaultMode == 1
SameSiteLaxMode == 2
SameSiteStrictMode == 3
SameSiteNoneMode == 4
defaultSameSite == SameSiteStrictMode
defaultCookieName == "session"

authKeyLength == 64
encryptKeyLength == 32

Nil == "nil"
ErrAuthKeyWrongSize == "session: auth key is invalid, must be exactly 64 characters"
ErrEncyptKeyWrongSize == "session: encrypt key is invalid, must be exactly 32 characters"
ErrMaxAgeTooShort == "session: max age is invalid, must be greater than 1 second"
ErrKeyNotFound == "session: key not found in session data"

NoStore == [nil |-> "store"]

-----------------------------------------------------------------------------
(* Input domains *)

Chars == {" ", "\t", "a"}

RECURSIVE SeqsUpTo(_, _)
SeqsUpTo(S, n) ==
    IF n = 0 THEN {<<>>}
    ELSE LET shorter == SeqsUpTo(S, n - 1)
         IN  shorter \cup {Append(s, ch) : s \in shorter, ch \in S}

Domains == SeqsUpTo(Chars, MaxStrLen) \cup {defaultDomain}
Paths == {<<>>, <<" ">>, <<"a">>, <<" ", "a">>, defaultPath}
MaxAges == {0, Second - 1, Second, defaultMaxAge}
SameSites == 0 .. 5

UserAuthKey == "asdfasdfasdfasdfasdfasdfasdfasdfasdfasdfasdfasdfasdfasdfasdfasdf"
UserEncryptKey == "asdfasdfasdfasdfasdfasdfasdfasdf"
AuthKeys == {"", "too short", UserAuthKey, UserAuthKey \o "x"}
EncryptKeys == {"", "too short", UserEncryptKey, UserEncryptKey \o "x"}

\* what securecookie.GenerateRandomKey(n) returns: n random bytes, which no
\* earlier call returned.  The i-th draw of the program returns the i-th key.
Random32 == <<"r1r1r1r1r1r1r1r1r1r1r1r1r1r1r1r1", "r2r2r2r2r2r2r2r2r2r2r2r2r2r2r2r2",
              "r3r3r3r3r3r3r3r3r3r3r3r3r3r3r3r3", "r4r4r4r4r4r4r4r4r4r4r4r4r4r4r4r4",
              "r5r5r5r5r5r5r5r5r5r5r5r5r5r5r5r5", "r6r6r6r6r6r6r6r6r6r6r6r6r6r6r6r6">>
GenerateRandomKey(length, i) ==
    IF length = 32 THEN Random32[i] ELSE Random32[i] \o Random32[i]
RandomAuthKeys == {GenerateRandomKey(authKeyLength, i) : i \in 1 .. Len(Random32)}
RandomEncryptKeys == {GenerateRandomKey(encryptKeyLength, i) : i \in 1 .. Len(Random32)}

-----------------------------------------------------------------------------
(* Config *)

NewConfig ==
    [ Domain     |-> defaultDomain,
      Path       |-> defaultPath,
      MaxAge     |-> defaultMaxAge,
      HTTPOnly   |-> defaultHTTPOnly,
      Secure     |-> defaultSecure,
      SameSite   |-> defaultSameSite,
      CookieName |-> defaultCookieName,
      AuthKey    |-> "",
      EncryptKey |-> "",
      store      |-> NoStore ]

isSpace(ch) == ch \in {" ", "\t", "\n", "\r"}

RECURSIVE TrimLeft(_)
TrimLeft(s) ==
    IF s # <<>> /\ isSpace(Head(s)) THEN TrimLeft(Tail(s)) ELSE s

RECURSIVE TrimRight(_)
TrimRight(s) ==
    IF s # <<>> /\ isSpace(s[Len(s)]) THEN TrimRight(SubSeq(s, 1, Len(s) - 1)) ELSE s

TrimSpace(s) == TrimRight(TrimLeft(s))

\* Variants of the steps of validate with one condition changed each; the
\* properties below must tell them from the steps as written.
blankDomainUntrimmed(c) ==
    IF c.Domain = <<>> THEN [c EXCEPT !.Domain = defaultDomain] ELSE c

maxAgeTooShortUnitless(c) == c.MaxAge < 1

invalidSameSiteZeroValid(c) ==
    IF c.SameSite < 0 \/ c.SameSite > 4 THEN [c EXCEPT !.SameSite = defaultSameSite] ELSE c

switchAuthKeyWrongLength(c, ka) ==
    CASE Len(c.AuthKey) = 0 -> [cfg |-> [c EXCEPT !.AuthKey = ka], err |-> Nil]
      [] Len(c.AuthKey) = encryptKeyLength -> [cfg |-> c, err |-> Nil]
      [] OTHER -> [cfg |-> c, err |-> ErrAuthKeyWrongSize]

switchAuthKeyRegenerate(c, ka) ==
    CASE Len(c.AuthKey) \in {0, authKeyLength} -> [cfg |-> [c EXCEPT !.AuthKey = ka], err |-> Nil]
      [] OTHER -> [cfg |-> c, err |-> ErrAuthKeyWrongSize]

switchEncryptKeyAnyLength(c, ke) ==
    CASE Len(c.EncryptKey) = 0 -> [cfg |-> [c EXCEPT !.EncryptKey = ke], err |-> Nil]
      [] OTHER -> [cfg |-> c, err |-> Nil]

\* The steps of c.validate(), in the order of the code.  Each key step
\* returns the configuration as it leaves it and the error it returns with.

blankDomain(c) ==
    IF TrimSpace(c.Domain) = <<>> THEN [c EXCEPT !.Domain = defaultDomain] ELSE c

blankPath(c) ==
    IF TrimSpace(c.Path) = <<>> THEN [c EXCEPT !.Path = defaultPath] ELSE c

maxAgeTooShort(c) == c.MaxAge < 1 * Second

invalidSameSite(c) ==
    IF c.SameSite < 1 \/ c.SameSite > 4 THEN [c EXCEPT !.SameSite = defaultSameSite] ELSE c

switchAuthKey(c, ka) ==
    CASE Len(c.AuthKey) = 0 -> [cfg |-> [c EXCEPT !.AuthKey = ka], err |-> Nil]
      [] Len(c.AuthKey) = authKeyLength -> [cfg |-> c, err |-> Nil]
      [] OTHER -> [cfg |-> c, err |-> ErrAuthKeyWrongSize]

switchEncryptKey(c, ke) ==
    CASE Len(c.EncryptKey) = 0 -> [cfg |-> [c EXCEPT !.EncryptKey = ke], err |-> Nil]
      [] Len(c.EncryptKey) = encryptKeyLength -> [cfg |-> c, err |-> Nil]
      [] OTHER -> [cfg |-> c, err |-> ErrEncyptKeyWrongSize]

\* validate that checks the keys before the max-age
validateKeysFirst(c, ka, ke) ==
    LET c2 == invalidSameSite(blankPath(blankDomain(c)))
        a == switchAuthKey(c2, ka)
        e == IF a.err # Nil THEN a ELSE switchEncryptKey(a.cfg, ke)
    IN  IF e.err # Nil THEN e
        ELSE IF maxAgeTooShort(e.cfg) THEN [cfg |-> e.cfg, err |-> ErrMaxAgeTooShort]
        ELSE e

\* c.validate() with ka, ke the keys GenerateRandomKey hands out if asked;
\* the result is the configuration as the call leaves it and the error.
validate(c, ka, ke) ==
    LET c2 == blankPath(blankDomain(c))
    IN  IF maxAgeTooShort(c2)
        THEN [cfg |-> c2, err |-> ErrMaxAgeTooShort]
        ELSE LET a == switchAuthKey(invalidSameSite(c2), ka)
             IN  IF a.err # Nil THEN a ELSE switchEncryptKey(a.cfg, ke)

\* int(d.Seconds()): the duration in seconds, truncated toward zero
Seconds(d) == IF d >= 0 THEN d \div Second ELSE -((-d) \div Second)

\* getOptions without the conversion of MaxAge to seconds
getOptionsUnconverted(c) ==
    [ Domain   |-> c.Domain,
      Path     |-> c.Path,
      MaxAge   |-> c.MaxAge,
      HttpOnly |-> c.HTTPOnly,
      Secure   |-> c.Secure,
      SameSite |-> c.SameSite ]

getOptions(c) ==
    [ Domain   |-> c.Domain,
      Path     |-> c.Path,
      MaxAge   |-> Seconds(c.MaxAge),
      HttpOnly |-> c.HTTPOnly,
      Secure   |-> c.Secure,
      SameSite |-> c.SameSite ]

-----------------------------------------------------------------------------
(* gorilla/securecookie and gorilla/sessions, as far as the package uses them *)

Reqs == {1, 2}
\* the requests of Spec, which handles one request after the other
Serial == {1}
CookieNames == {defaultCookieName, "test"}
ValueKeys == {"k1", "k2"}
\* the entries Spec adds
Added == {<<"k1", "v1">>, <<"k1", "v2">>}

NoCookie == [nil |-> "cookie"]
NoSession == [nil |-> "session"]
NoValues == [k \in {} |-> "v1"]

Day == 86400
codecMaxAge == Day * 30
Ticks == {Day * 30, Day * 31}
\* the clock stops here
MaxClock == Day * 31

ErrMacInvalid == "securecookie: the value is not valid"
ErrTimestampExpired == "securecookie: expired timestamp"
ErrDecryption == "securecookie: the value could not be decrypted"
Panic == "panic: invalid memory address or nil pointer dereference"

\* sessions.NewCookieStore(authKey, encryptKey): one codec whose MaxAge is
\* that of the default Options
NewCookieStore(authKey, encryptKey) ==
    [ hashKey  |-> authKey,
      blockKey |-> encryptKey,
      maxAge   |-> codecMaxAge,
      Options  |-> [ Domain |-> <<>>, Path |-> <<"/">>, MaxAge |-> codecMaxAge,
                     HttpOnly |-> FALSE, Secure |-> FALSE, SameSite |-> 0 ] ]

\* securecookie.Encode: the values, encrypted with the block key, with the
\* time of sealing, authenticated with the hash key together with the name
Encode(st, name, values, t) ==
    [ name |-> name, values |-> values, hashKey |-> st.hashKey,
      blockKey |-> st.blockKey, ts |-> t, intact |-> TRUE ]

\* securecookie.Decode: MAC, then timestamp, then decryption
Decode(st, name, tok, t) ==
    IF ~tok.intact \/ tok.hashKey # st.hashKey \/ tok.name # name
    THEN [values |-> NoValues, err |-> ErrMacInvalid]
    ELSE IF st.maxAge # 0 /\ tok.ts < t - st.maxAge
    THEN [values |-> NoValues, err |-> ErrTimestampExpired]
    ELSE IF tok.blockKey # st.blockKey
    THEN [values |-> NoValues, err |-> ErrDecryption]
    ELSE [values |-> tok.values, err |-> Nil]

\* sessions.NewCookie(name, value, options)
NewCookie(name, value, options) ==
    [ Name |-> name, Value |-> value, Domain |-> options.Domain,
      Path |-> options.Path, MaxAge |-> options.MaxAge,
      HttpOnly |-> options.HttpOnly, Secure |-> options.Secure,
      SameSite |-> options.SameSite ]

\* CookieStore.New without the decoding of the request's cookie
StoreNewUndecoded(st, ck, name, t) ==
    [ name |-> name, store |-> st, Values |-> NoValues, IsNew |-> TRUE,
      Options |-> st.Options, err |-> Nil ]

\* CookieStore.New(r, name): a new session of the store, with a copy of the
\* store's options; the request's cookie of that name, if any, is decoded
\* into it
StoreNew(st, ck, name, t) ==
    LET fresh == [ name |-> name, store |-> st, Values |-> NoValues, IsNew |-> TRUE,
                   Options |-> st.Options, err |-> Nil ]
    IN  IF ck # NoCookie /\ ck.Name = name
        THEN LET d == Decode(st, name, ck.Value, t)
             IN  IF d.err = Nil
                 THEN [fresh EXCEPT !.Values = d.values, !.IsNew = FALSE]
                 ELSE [fresh EXCEPT !.err = d.err]
        ELSE fresh

\* GetSession that makes a session although there is no store
GetSessionNilStore(c, reg, ck, t) ==
    LET name == c.CookieName
        st == IF c.store = NoStore THEN NewCookieStore("", "") ELSE c.store
    IN  IF reg[name] # NoSession
        THEN LET s == [reg[name] EXCEPT !.store = c.store]
             IN  [reg |-> [reg EXCEPT ![name] = s], s |-> s, err |-> s.err,
                  created |-> FALSE]
        ELSE LET s == StoreNew(st, ck, name, t)
             IN  [reg |-> [reg EXCEPT ![name] = s], s |-> s, err |-> s.err, created |-> TRUE]

\* Get under the default cookie name, whatever the configuration says
GetSessionDefaultName(c, reg, ck, t) ==
    LET name == defaultCookieName
    IN  IF reg[name] # NoSession
        THEN LET s == [reg[name] EXCEPT !.store = c.store]
             IN  [reg |-> [reg EXCEPT ![name] = s], s |-> s, err |-> s.err,
                  created |-> FALSE]
        ELSE IF c.store = NoStore
        THEN [reg |-> reg, s |-> NoSession, err |-> Panic, created |-> FALSE]
        ELSE LET s == StoreNew(c.store, ck, name, t)
             IN  [reg |-> [reg EXCEPT ![name] = s], s |-> s, err |-> s.err, created |-> TRUE]

\* Get that leaves a cached session bound to the store that made it
GetSessionCachedStore(c, reg, ck, t) ==
    LET name == c.CookieName
    IN  IF reg[name] # NoSession
        THEN [reg |-> reg, s |-> reg[name], err |-> reg[name].err, created |-> FALSE]
        ELSE IF c.store = NoStore
        THEN [reg |-> reg, s |-> NoSession, err |-> Panic, created |-> FALSE]
        ELSE LET s == StoreNew(c.store, ck, name, t)
             IN  [reg |-> [reg EXCEPT ![name] = s], s |-> s, err |-> s.err, created |-> TRUE]

\* c.store.Get(r, c.CookieName): the session cached for the request, else a
\* new one, which is cached with its error; either way the session is bound
\* to the store of the call (Registry.Get: session.store = store).  reg is
\* the request's registry afterwards, s the session (NoSession after a
\* panic), err the error.
GetSession(c, reg, ck, t) ==
    LET name == c.CookieName
    IN  IF reg[name] # NoSession
        THEN LET s == [reg[name] EXCEPT !.store = c.store]
             IN  [reg |-> [reg EXCEPT ![name] = s], s |-> s, err |-> s.err,
                  created |-> FALSE]
        ELSE IF c.store = NoStore
        THEN [reg |-> reg, s |-> NoSession, err |-> Panic, created |-> FALSE]
        ELSE LET s == StoreNew(c.store, ck, name, t)
             IN  [reg |-> [reg EXCEPT ![name] = s], s |-> s, err |-> s.err, created |-> TRUE]

\* s.Save(r, w): the store the session is bound to seals the values under
\* the session's name and sets the cookie with the session's options; a nil
\* store is dereferenced for its codecs
Save(s, t) ==
    IF s.store = NoStore
    THEN [cookie |-> NoCookie, err |-> Panic]
    ELSE [ cookie |-> NewCookie(s.name, Encode(s.store, s.name, s.Values, t), s.Options),
           err |-> Nil ]

-----------------------------------------------------------------------------
(* What a call returned *)

NoConfig == [nil |-> "config"]

Ret(op) ==
    [ op      |-> op,
      r       |-> 0,            \* the request of the call
      key     |-> "",           \* arguments
      arg     |-> "",           \* a setter's argument(s)
      val     |-> "",
      err     |-> Nil,          \* results
      value   |-> "",
      n       |-> 0,            \* the int64 argument or result of a typed helper
      kv      |-> NoValues,
      s       |-> NoSession,
      pre     |-> NoConfig,     \* the configuration before validate or Init
      wrote   |-> FALSE,        \* a Set-Cookie header was written
      created |-> FALSE,        \* the call created the request's session
      src     |-> 0,            \* NewRequest: whose response the cookie is from
      handle  |-> NoConfig ]    \* GetConfig: the pointer returned

-----------------------------------------------------------------------------
(* History kept for the properties: written[r] says that the cookie in      *)
(* resp[r], presented[r] that the cookie request r presents, was sealed by  *)
(* this program and that AuthKey, EncryptKey and CookieName of the          *)
(* configuration have not been assigned a different value since.  writer[r] *)
(* is the function that wrote the cookie in resp[r], source[r] the one that *)
(* wrote the cookie request r presents ("" when this program wrote none);   *)
(* inited says that Init has returned nil at some time.                     *)

KeyFields(c) == <<c.AuthKey, c.EncryptKey, c.CookieName>>

WriterNext ==
    [r \in Reqs |->
        IF ret'.r = r /\ ret'.wrote THEN ret'.op
        ELSE IF ret'.r = r /\ ret'.op = "NewRequest" THEN ""
        ELSE hist.writer[r]]

SourceNext ==
    [r \in Reqs |->
        IF ret'.r = r /\ ret'.op = "NewRequest"
        THEN IF ret'.src # 0 THEN hist.writer[ret'.src] ELSE ""
        ELSE hist.source[r]]

InitedNext == hist.inited \/ (ret'.op = "Init" /\ ret'.err = Nil)

HistNext ==
    IF KeyFields(config') # KeyFields(config)
    THEN [written |-> [r \in Reqs |-> FALSE], presented |-> [r \in Reqs |-> FALSE],
          writer |-> WriterNext, source |-> SourceNext, inited |-> InitedNext]
    ELSE [written |->
            [r \in Reqs |->
                IF ret'.r = r /\ ret'.wrote THEN TRUE
                ELSE IF ret'.r = r /\ ret'.op = "NewRequest" THEN FALSE
                ELSE hist.written[r]],
          presented |->
            [r \in Reqs |->
                IF ret'.r = r /\ ret'.op = "NewRequest"
                THEN ret'.src # 0 /\ hist.written[ret'.src]
                ELSE hist.presented[r]],
          writer |-> WriterNext, source |-> SourceNext, inited |-> InitedNext]

Record == hist' = HistNext

\* the history of a call that runs from entry to return in one step
Track == Record /\ inflight' = inflight
Budget == steps < MaxSteps /\ steps' = steps + 1 /\ rand' = rand

-----------------------------------------------------------------------------
(* Configuration: DefaultConfig, the setters, validate, Init *)

SetDomains == {<<"a">>}
SetPaths == {<<"a">>}
SetMaxAges == {2 * Hour + 500}
SetSameSites == {SameSiteLaxMode}
SetKeys == {<<UserAuthKey, UserEncryptKey>>}
SetCookieNames == {"test"}

\* DefaultConfig that resets the fields and keeps the store
DefaultConfigKeepsStore ==
    /\ Budget
    /\ config' = [NewConfig EXCEPT !.store = config.store]
    /\ ret' = Ret("DefaultConfig")
    /\ UNCHANGED <<now, cookie, registry, resp>>
    /\ Track

DefaultConfig ==
    /\ Budget
    /\ config' = NewConfig
    /\ ret' = Ret("DefaultConfig")
    /\ UNCHANGED <<now, cookie, registry, resp>>
    /\ Track

Secure(yes) ==
    /\ Budget
    /\ config' = [config EXCEPT !.Secure = yes]
    /\ ret' = [Ret("Secure") EXCEPT !.arg = yes]
    /\ UNCHANGED <<now, cookie, registry, resp>>
    /\ Track

HTTPOnly(yes) ==
    /\ Budget
    /\ config' = [config EXCEPT !.HTTPOnly = yes]
    /\ ret' = [Ret("HTTPOnly") EXCEPT !.arg = yes]
    /\ UNCHANGED <<now, cookie, registry, resp>>
    /\ Track

\* Domain that assigns the path as well
DomainAndPath(domain) ==
    /\ Budget
    /\ config' = [config EXCEPT !.Domain = domain, !.Path = domain]
    /\ ret' = [Ret("Domain") EXCEPT !.arg = domain]
    /\ UNCHANGED <<now, cookie, registry, resp>>
    /\ Track

Domain(domain) ==
    /\ Budget
    /\ config' = [config EXCEPT !.Domain = domain]
    /\ ret' = [Ret("Domain") EXCEPT !.arg = domain]
    /\ UNCHANGED <<now, cookie, registry, resp>>
    /\ Track

Path(path) ==
    /\ Budget
    /\ config' = [config EXCEPT !.Path = path]
    /\ ret' = [Ret("Path") EXCEPT !.arg = path]
    /\ UNCHANGED <<now, cookie, registry, resp>>
    /\ Track

MaxAge(maxAge) ==
    /\ Budget
    /\ config' = [config EXCEPT !.MaxAge = maxAge]
    /\ ret' = [Ret("MaxAge") EXCEPT !.arg = maxAge]
    /\ UNCHANGED <<now, cookie, registry, resp>>
    /\ Track

\* Keys that also rebuilds the store of an initialized configuration
KeysReinit(authKey, encryptkey) ==
    /\ Budget
    /\ config' = [config EXCEPT !.AuthKey = authKey, !.EncryptKey = encryptkey,
                                !.store = IF @ = NoStore THEN @
                                          ELSE [@ EXCEPT !.hashKey = authKey,
                                                         !.blockKey = encryptkey]]
    /\ ret' = [Ret("Keys") EXCEPT !.arg = <<authKey, encryptkey>>]
    /\ UNCHANGED <<now, cookie, registry, resp>>
    /\ Track

Keys(authKey, encryptkey) ==
    /\ Budget
    /\ config' = [config EXCEPT !.AuthKey = authKey, !.EncryptKey = encryptkey]
    /\ ret' = [Ret("Keys") EXCEPT !.arg = <<authKey, encryptkey>>]
    /\ UNCHANGED <<now, cookie, registry, resp>>
    /\ Track

CookieName(cookieName) ==
    /\ Budget
    /\ config' = [config EXCEPT !.CookieName = cookieName]
    /\ ret' = [Ret("CookieName") EXCEPT !.arg = cookieName]
    /\ UNCHANGED <<now, cookie, registry, resp>>
    /\ Track

SameSite(sameSite) ==
    /\ Budget
    /\ config' = [config EXCEPT !.SameSite = sameSite]
    /\ ret' = [Ret("SameSite") EXCEPT !.arg = sameSite]
    /\ UNCHANGED <<now, cookie, registry, resp>>
    /\ Track

\* &config, the pointer to the package level configuration
ConfigHandle == [ref |-> "config"]

\* GetConfig(): return &config
GetConfig ==
    /\ Budget
    /\ ret' = [Ret("GetConfig") EXCEPT !.handle = ConfigHandle]
    /\ UNCHANGED <<config, now, cookie, registry, resp>>
    /\ Track

\* the number of keys a call that took the configuration from c to d drew
Drawn(c, d) ==
    (IF d.AuthKey # c.AuthKey THEN 1 ELSE 0) + (IF d.EncryptKey # c.EncryptKey THEN 1 ELSE 0)

\* a call of c.validate()
Validate ==
    LET v == validate(config, GenerateRandomKey(authKeyLength, rand + 1),
                              GenerateRandomKey(encryptKeyLength, rand + 2))
    IN  /\ rand + 2 <= Len(Random32)
        /\ config' = v.cfg
        /\ rand' = rand + Drawn(config, v.cfg)
        /\ ret' = [Ret("validate") EXCEPT !.err = v.err, !.pre = config]
        /\ UNCHANGED <<now, cookie, registry, resp, steps>>
        /\ Track

\* Init that builds the store whatever validate returned
ConfigInitUnchecked(c, ka, ke) ==
    LET v == validate(c, ka, ke)
    IN  [cfg |-> [v.cfg EXCEPT !.store =
                     [NewCookieStore(v.cfg.AuthKey, v.cfg.EncryptKey)
                         EXCEPT !.Options = getOptions(v.cfg)]],
         err |-> v.err]

\* c.Init(): validate, then the store from the keys, with the options
ConfigInit(c, ka, ke) ==
    LET v == validate(c, ka, ke)
    IN  IF v.err # Nil
        THEN v
        ELSE [cfg |-> [v.cfg EXCEPT !.store =
                          [NewCookieStore(v.cfg.AuthKey, v.cfg.EncryptKey)
                              EXCEPT !.Options = getOptions(v.cfg)]],
              err |-> Nil]

InitCall ==
    LET v == ConfigInit(config, GenerateRandomKey(authKeyLength, rand + 1),
                                GenerateRandomKey(encryptKeyLength, rand + 2))
    IN  /\ rand + 2 <= Len(Random32)
        /\ config' = v.cfg
        /\ rand' = rand + Drawn(config, v.cfg)
        /\ ret' = [Ret("Init") EXCEPT !.err = v.err, !.pre = config]
        /\ UNCHANGED <<now, cookie, registry, resp, steps>>
        /\ Track

\* h.Init() on a pointer h that GetConfig returned: the method runs on the
\* package level configuration
HandleInit(h) ==
    /\ h = ConfigHandle
    /\ InitCall

-----------------------------------------------------------------------------
(* Requests and the session functions *)

EmptyRegistry == [n \in CookieNames |-> NoSession]

\* an assignment that leaves the new entry alone in the map
PutAlone(values, key, value) == [k \in {key} |-> value]

\* s.Values[key] = value
Put(values, key, value) ==
    [k \in DOMAIN values \cup {key} |-> IF k = key THEN value ELSE values[k]]

\* a cookie sealed by somebody else, under keys that are not the program's
ForgedCookie ==
    [ Name  |-> defaultCookieName,
      Value |-> [ name |-> defaultCookieName, values |-> Put(NoValues, "k1", "v2"),
                  hashKey |-> "forged", blockKey |-> "forged", ts |-> 0,
                  intact |-> TRUE ] ]

\* A request arrives in slot r.  It presents no cookie, or the cookie some
\* response set (as it was set, or with a byte changed), or a forged one.
NewRequest(r) ==
    /\ \/ /\ cookie' = [cookie EXCEPT ![r] = NoCookie]
          /\ ret' = [Ret("NewRequest") EXCEPT !.r = r]
       \/ /\ cookie' = [cookie EXCEPT ![r] = ForgedCookie]
          /\ ret' = [Ret("NewRequest") EXCEPT !.r = r]
       \/ \E q \in Reqs :
            /\ resp[q] # NoCookie
            /\ \/ /\ cookie' = [cookie EXCEPT ![r] =
                                  [Name |-> resp[q].Name, Value |-> resp[q].Value]]
                  /\ ret' = [Ret("NewRequest") EXCEPT !.r = r, !.src = q]
               \/ /\ cookie' = [cookie EXCEPT ![r] =
                                  [Name |-> resp[q].Name,
                                   Value |-> [resp[q].Value EXCEPT !.intact = FALSE]]]
                  /\ ret' = [Ret("NewRequest") EXCEPT !.r = r]
    /\ registry' = [registry EXCEPT ![r] = EmptyRegistry]
    /\ resp' = [resp EXCEPT ![r] = NoCookie]
    /\ UNCHANGED <<config, now>>
    /\ Budget
    /\ Track

\* time passes
Tick(d) ==
    /\ now + d <= MaxClock
    /\ now' = now + d
    /\ ret' = Ret("Tick")
    /\ UNCHANGED <<config, cookie, registry, resp>>
    /\ Budget
    /\ Track

GetSessionCall(r) ==
    LET g == GetSession(config, registry[r], cookie[r], now)
    IN  /\ registry' = [registry EXCEPT ![r] = g.reg]
        /\ ret' = [Ret("GetSession") EXCEPT !.r = r, !.err = g.err, !.s = g.s,
                                            !.created = g.created]
        /\ UNCHANGED <<config, now, cookie, resp>>
        /\ Budget
        /\ Track

\* a save that puts the session into the registry of every request
SaveSessionShared(r, g, s1, rt) ==
    LET sv == Save(s1, now)
    IN  /\ registry' = [q \in Reqs |->
                           [(IF q = r THEN g.reg ELSE registry[q]) EXCEPT ![s1.name] = s1]]
        /\ resp' = IF sv.err = Nil THEN [resp EXCEPT ![r] = sv.cookie] ELSE resp
        /\ ret' = [rt EXCEPT !.r = r, !.err = sv.err, !.created = g.created,
                             !.wrote = (sv.err = Nil)]

\* the tail shared by Destroy, Extend and AddValue: the session, changed to
\* s1 by the caller, is saved
SaveSession(r, g, s1, rt) ==
    LET sv == Save(s1, now)
    IN  /\ registry' = [registry EXCEPT ![r] = [g.reg EXCEPT ![s1.name] = s1]]
        /\ resp' = IF sv.err = Nil THEN [resp EXCEPT ![r] = sv.cookie] ELSE resp
        /\ ret' = [rt EXCEPT !.r = r, !.err = sv.err, !.created = g.created,
                             !.wrote = (sv.err = Nil)]

\* the return on an error of GetSession after the session was saved anyway
GetSessionFailedSaved(r, g, rt) ==
    /\ registry' = [registry EXCEPT ![r] = g.reg]
    /\ resp' = IF g.s = NoSession THEN resp
               ELSE [resp EXCEPT ![r] = Save(g.s, now).cookie]
    /\ ret' = [rt EXCEPT !.r = r, !.err = g.err, !.created = g.created]

\* the early return on an error of GetSession
GetSessionFailed(r, g, rt) ==
    /\ registry' = [registry EXCEPT ![r] = g.reg]
    /\ resp' = resp
    /\ ret' = [rt EXCEPT !.r = r, !.err = g.err, !.created = g.created]

\* Destroy that empties the session before it saves it
DestroyCleared(r) ==
    LET g == GetSession(config, registry[r], cookie[r], now)
    IN  /\ IF g.err # Nil
           THEN GetSessionFailed(r, g, Ret("Destroy"))
           ELSE SaveSession(r, g,
                    [g.s EXCEPT !.Options = [getOptions(config) EXCEPT !.MaxAge = -1],
                                !.Values = NoValues],
                    Ret("Destroy"))
        /\ UNCHANGED <<config, now, cookie>>
        /\ Budget
        /\ Track

Destroy(r) ==
    LET g == GetSession(config, registry[r], cookie[r], now)
    IN  /\ IF g.err # Nil
           THEN GetSessionFailed(r, g, Ret("Destroy"))
           ELSE SaveSession(r, g,
                    [g.s EXCEPT !.Options = [getOptions(config) EXCEPT !.MaxAge = -1]],
                    Ret("Destroy"))
        /\ UNCHANGED <<config, now, cookie>>
        /\ Budget
        /\ Track

\* Extend that saves the session without its values
ExtendEmptied(r) ==
    LET g == GetSession(config, registry[r], cookie[r], now)
    IN  /\ IF g.err # Nil
           THEN GetSessionFailed(r, g, Ret("Extend"))
           ELSE SaveSession(r, g, [g.s EXCEPT !.Options = getOptions(config),
                                               !.Values = NoValues],
                            Ret("Extend"))
        /\ UNCHANGED <<config, now, cookie>>
        /\ Budget
        /\ Track

Extend(r) ==
    LET g == GetSession(config, registry[r], cookie[r], now)
    IN  /\ IF g.err # Nil
           THEN GetSessionFailed(r, g, Ret("Extend"))
           ELSE SaveSession(r, g, [g.s EXCEPT !.Options = getOptions(config)],
                            Ret("Extend"))
        /\ UNCHANGED <<config, now, cookie>>
        /\ Budget
        /\ Track

AddValue(r, key, value) ==
    LET g == GetSession(config, registry[r], cookie[r], now)
        rt == [Ret("AddValue") EXCEPT !.key = key, !.val = value]
    IN  /\ IF g.err # Nil
           THEN GetSessionFailed(r, g, rt)
           ELSE SaveSession(r, g, [g.s EXCEPT !.Values = Put(g.s.Values, key, value)], rt)
        /\ UNCHANGED <<config, now, cookie>>
        /\ Budget
        /\ Track

GetValue(r, key) ==
    LET g == GetSession(config, registry[r], cookie[r], now)
        rt == [Ret("GetValue") EXCEPT !.r = r, !.key = key, !.created = g.created]
    IN  /\ registry' = [registry EXCEPT ![r] = g.reg]
        /\ ret' = IF g.err # Nil THEN [rt EXCEPT !.err = g.err]
                  ELSE IF key \notin DOMAIN g.s.Values
                  THEN [rt EXCEPT !.err = ErrKeyNotFound]
                  ELSE [rt EXCEPT !.value = g.s.Values[key]]
        /\ UNCHANGED <<config, now, cookie, resp>>
        /\ Budget
        /\ Track

GetAllValues(r) ==
    LET g == GetSession(config, registry[r], cookie[r], now)
        rt == [Ret("GetAllValues") EXCEPT !.r = r, !.created = g.created]
    IN  /\ registry' = [registry EXCEPT ![r] = g.reg]
        /\ ret' = IF g.err # Nil THEN [rt EXCEPT !.err = g.err]
                  ELSE [rt EXCEPT !.kv = g.s.Values]
        /\ UNCHANGED <<config, now, cookie, resp>>
        /\ Budget
        /\ Track

-----------------------------------------------------------------------------
(* Specifications *)

\* no call of Init or Keys is in progress
NoCalls ==
    [ init      |-> "idle",       \* where Init is: idle, validated, stored
      pre       |-> NoConfig,     \* the configuration Init found
      validated |-> <<"", "">>,   \* the keys as its validate left them
      keys      |-> "idle",       \* where Keys is: idle, auth, encrypt
      args      |-> <<"", "">>,   \* the arguments of Keys
      raced     |-> FALSE ]       \* Keys was in progress during the last Init

NoHistory ==
    [ written |-> [r \in Reqs |-> FALSE], presented |-> [r \in Reqs |-> FALSE],
      writer |-> [r \in Reqs |-> ""], source |-> [r \in Reqs |-> ""], inited |-> FALSE ]

\* the program after DefaultConfig(); no request has a cookie yet
Init ==
    /\ config = NewConfig
    /\ now = 0
    /\ cookie = [r \in Reqs |-> NoCookie]
    /\ registry = [r \in Reqs |-> EmptyRegistry]
    /\ resp = [r \in Reqs |-> NoCookie]
    /\ ret = Ret("start")
    /\ rand = 0
    /\ steps = 0
    /\ hist = NoHistory
    /\ inflight = NoCalls

Next ==
    \/ DefaultConfig
    \/ \E yes \in {~defaultSecure} : Secure(yes)
    \/ \E yes \in {~defaultHTTPOnly} : HTTPOnly(yes)
    \/ \E d \in SetDomains : Domain(d)
    \/ \E p \in SetPaths : Path(p)
    \/ \E m \in SetMaxAges : MaxAge(m)
    \/ \E k \in SetKeys : Keys(k[1], k[2])
    \/ \E n \in SetCookieNames : CookieName(n)
    \/ \E ss \in SetSameSites : SameSite(ss)
    \/ InitCall
    \/ \E r \in Serial : NewRequest(r)
    \/ \E d \in Ticks : Tick(d)
    \/ \E r \in Serial : GetSessionCall(r)
    \/ \E r \in Serial : Destroy(r)
    \/ \E r \in Serial : Extend(r)
    \/ \E r \in Serial, kv \in Added : AddValue(r, kv[1], kv[2])
    \/ \E r \in Serial, k \in ValueKeys : GetValue(r, k)
    \/ \E r \in Serial : GetAllValues(r)

Spec == Init /\ [][Next]_vars

\* validate and Init on every configuration a caller can have set up
InitCfg ==
    /\ config \in [ Domain : Domains, Path : Paths, MaxAge : MaxAges,
                    HTTPOnly : BOOLEAN, Secure : BOOLEAN, SameSite : SameSites,
                    CookieName : {defaultCookieName},
                    AuthKey : AuthKeys, EncryptKey : EncryptKeys,
                    store : {NoStore} ]
    /\ now = 0
    /\ cookie = [r \in Reqs |-> NoCookie]
    /\ registry = [r \in Reqs |-> EmptyRegistry]
    /\ resp = [r \in Reqs |-> NoCookie]
    /\ ret = Ret("start")
    /\ rand = 0
    /\ steps = 0
    /\ hist = NoHistory
    /\ inflight = NoCalls

NextCfg == Validate \/ InitCall

SpecCfg == InitCfg /\ [][NextCfg]_vars

-----------------------------------------------------------------------------
(* session_typical.go: the helpers for user id and session id *)

keyUserID == "user_id"
keySessionID == "session_id"

ErrSyntax == "strconv.ParseInt: invalid syntax"

Digits == <<"0", "1", "2", "3", "4", "5", "6", "7", "8", "9">>

\* the value of a digit character, -1 for any other character
DigitValue(ch) ==
    IF \E d \in 1 .. 10 : Digits[d] = ch
    THEN (CHOOSE d \in 1 .. 10 : Digits[d] = ch) - 1
    ELSE -1

RECURSIVE FormatUint(_)
FormatUint(n) ==
    IF n < 10 THEN Digits[n + 1] ELSE FormatUint(n \div 10) \o Digits[(n % 10) + 1]

\* strconv.FormatInt(value, 10)
FormatInt(value) ==
    IF value < 0 THEN "-" \o FormatUint(-value) ELSE FormatUint(value)

\* the digits of str read as a number on top of acc; -1 when one of the
\* characters is no digit
RECURSIVE ParseUint(_, _)
ParseUint(str, acc) ==
    IF str = "" THEN acc
    ELSE IF DigitValue(Head(str)) < 0 THEN -1
    ELSE ParseUint(Tail(str), acc * 10 + DigitValue(Head(str)))

\* strconv.ParseInt(valStr, 10, 64): an optional sign, then one digit or more
ParseInt(valStr) ==
    LET signed == valStr # "" /\ Head(valStr) \in {"+", "-"}
        digits == IF signed THEN Tail(valStr) ELSE valStr
        u == IF digits = "" THEN -1 ELSE ParseUint(digits, 0)
    IN  IF u < 0 THEN [value |-> 0, err |-> ErrSyntax]
        ELSE IF signed /\ Head(valStr) = "-" THEN [value |-> -u, err |-> Nil]
        ELSE [value |-> u, err |-> Nil]

\* c.AddValue(w, r, key, value), returning as the helper rt
AddValueAs(r, key, value, rt) ==
    LET g == GetSession(config, registry[r], cookie[r], now)
    IN  /\ IF g.err # Nil
           THEN GetSessionFailed(r, g, rt)
           ELSE SaveSession(r, g, [g.s EXCEPT !.Values = Put(g.s.Values, key, value)], rt)
        /\ UNCHANGED <<config, now, cookie>>
        /\ Budget
        /\ Track

\* c.GetValue(r, key) and strconv.ParseInt of what it returns
GetIntAs(r, key, rt) ==
    LET g == GetSession(config, registry[r], cookie[r], now)
        rt1 == [rt EXCEPT !.r = r, !.key = key, !.created = g.created]
    IN  /\ registry' = [registry EXCEPT ![r] = g.reg]
        /\ ret' = IF g.err # Nil THEN [rt1 EXCEPT !.err = g.err]
                  ELSE IF key \notin DOMAIN g.s.Values
                  THEN [rt1 EXCEPT !.err = ErrKeyNotFound]
                  ELSE LET p == ParseInt(g.s.Values[key])
                       IN  [rt1 EXCEPT !.n = p.value, !.err = p.err]
        /\ UNCHANGED <<config, now, cookie, resp>>
        /\ Budget
        /\ Track

AddUserID(r, value) ==
    AddValueAs(r, keyUserID, FormatInt(value),
               [Ret("AddUserID") EXCEPT !.key = keyUserID, !.n = value])

GetUserID(r) == GetIntAs(r, keyUserID, Ret("GetUserID"))

AddSessionID(r, value) ==
    AddValueAs(r, keySessionID, FormatInt(value),
               [Ret("AddSessionID") EXCEPT !.key = keySessionID, !.n = value])

GetSessionID(r) == GetIntAs(r, keySessionID, Ret("GetSessionID"))

\* ids, and strings stored under the keys of the ids by AddValue
Ids == {-42, 0, 2554}
Strings == {"abc", "-", "+7"}

NextTyped ==
    \/ InitCall
    \/ \E r \in Serial : NewRequest(r)
    \/ \E r \in Serial, n \in Ids : AddUserID(r, n)
    \/ \E r \in Serial : GetUserID(r)
    \/ \E r \in Serial, n \in Ids : AddSessionID(r, n)
    \/ \E r \in Serial : GetSessionID(r)
    \/ \E r \in Serial, k \in {keyUserID, keySessionID}, str \in Strings : AddValue(r, k, str)

SpecTyped == Init /\ [][NextTyped]_vars

\* the values of a session: every key with every value
Entries == {<<k, v>> : k \in ValueKeys, v \in {"v1", "v2"}}

NextValues ==
    \/ InitCall
    \/ \E r \in Serial : NewRequest(r)
    \/ \E r \in Serial, kv \in Entries : AddValue(r, kv[1], kv[2])
    \/ \E r \in Serial, k \in ValueKeys : GetValue(r, k)
    \/ \E r \in Serial : GetAllValues(r)

SpecValues == Init /\ [][NextValues]_vars

\* Two requests in flight that present the same session cookie: the program
\* after Init() and an AddValue of k1, whose cookie the client sends twice.
InitializedConfig ==
    ConfigInit(NewConfig, GenerateRandomKey(authKeyLength, 1),
                          GenerateRandomKey(encryptKeyLength, 2)).cfg

OriginalValues == Put(NoValues, "k1", "v1")

OriginalCookie ==
    [ Name  |-> defaultCookieName,
      Value |-> Encode(InitializedConfig.store, defaultCookieName, OriginalValues, 0) ]

InitPair ==
    /\ config = InitializedConfig
    /\ now = 0
    /\ cookie = [r \in Reqs |-> OriginalCookie]
    /\ registry = [r \in Reqs |-> EmptyRegistry]
    /\ resp = [r \in Reqs |-> NoCookie]
    /\ ret = Ret("start")
    /\ rand = 2
    /\ steps = 0
    /\ hist = [ written |-> [r \in Reqs |-> FALSE], presented |-> [r \in Reqs |-> TRUE],
                writer |-> [r \in Reqs |-> ""], source |-> [r \in Reqs |-> "AddValue"],
                inited |-> TRUE ]
    /\ inflight = NoCalls

PairEntries == {<<"k2", "v2">>, <<"k3", "v2">>}

NextPair ==
    \/ \E r \in Reqs : NewRequest(r)
    \/ \E r \in Reqs, kv \in PairEntries : AddValue(r, kv[1], kv[2])
    \/ \E r \in Reqs : GetAllValues(r)

SpecPair == InitPair /\ [][NextPair]_vars

\* the package level configuration under every setter, with values that
\* validate accepts, replaces and rejects
ArgDomains == {<<>>, <<"a">>}
ArgPaths == {<<" ">>, <<"a">>}
ArgMaxAges == {0, 2 * Hour + 500}
ArgKeys == {<<UserAuthKey, UserEncryptKey>>, <<"too short", "">>, <<"", "">>}
ArgSameSites == {0, SameSiteLaxMode}

NextSet ==
    \/ DefaultConfig
    \/ \E yes \in BOOLEAN : Secure(yes)
    \/ \E yes \in BOOLEAN : HTTPOnly(yes)
    \/ \E d \in ArgDomains : Domain(d)
    \/ \E p \in ArgPaths : Path(p)
    \/ \E m \in ArgMaxAges : MaxAge(m)
    \/ \E k \in ArgKeys : Keys(k[1], k[2])
    \/ \E n \in SetCookieNames : CookieName(n)
    \/ \E ss \in ArgSameSites : SameSite(ss)
    \/ GetConfig
    \/ Validate
    \/ InitCall
    \/ \E h \in {ConfigHandle} : HandleInit(h)

SpecSet == Init /\ [][NextSet]_vars

-----------------------------------------------------------------------------
(* Init and Keys called from two goroutines.  Nothing synchronizes them, so *)
(* their statements interleave; a field that Init reads while Keys is about *)
(* to assign it is read as the old value, the new value, or a torn mixture  *)
(* of the two string headers.                                               *)

Torn == "torn"

\* what a read of a string field can return
RacyRead(old, new, writing) == IF writing THEN {old, new, Torn} ELSE {old}

\* one more call within the bound
Enter == steps < MaxSteps /\ steps' = steps + 1

\* Init, entry to line 189: validate, and the return of its error.  validate
\* reads the key fields, and assigns the one it finds empty
InitValidate ==
    /\ inflight.init = "idle"
    /\ Enter
    /\ rand + 2 <= Len(Random32)
    /\ \E a \in RacyRead(config.AuthKey, inflight.args[1], inflight.keys = "auth"),
          e \in RacyRead(config.EncryptKey, inflight.args[2], inflight.keys = "encrypt") :
          LET v == validate([config EXCEPT !.AuthKey = a, !.EncryptKey = e],
                            GenerateRandomKey(authKeyLength, rand + 1),
                            GenerateRandomKey(encryptKeyLength, rand + 2))
              left == [v.cfg EXCEPT
                          !.AuthKey = IF @ = a THEN config.AuthKey ELSE @,
                          !.EncryptKey = IF @ = e THEN config.EncryptKey ELSE @]
          IN  /\ config' = left
              /\ rand' = rand + Drawn(config, left)
              /\ IF v.err # Nil
                 THEN /\ ret' = [Ret("Init") EXCEPT !.err = v.err, !.pre = config]
                      /\ inflight' = inflight
                 ELSE /\ ret' = Ret("Init:validate")
                      /\ inflight' = [inflight EXCEPT
                                         !.init = "validated", !.pre = config,
                                         !.validated = <<v.cfg.AuthKey, v.cfg.EncryptKey>>,
                                         !.raced = inflight.keys # "idle"]
    /\ UNCHANGED <<now, cookie, registry, resp>>
    /\ Record

\* the store built from the keys the configuration had when Init was called
InitStoreStale(authKey, encryptKey) ==
    NewCookieStore(inflight.pre.AuthKey, inflight.pre.EncryptKey)

\* sessions.NewCookieStore([]byte(c.AuthKey), []byte(c.EncryptKey))
InitStore(authKey, encryptKey) == NewCookieStore(authKey, encryptKey)

\* Init, lines 193 to 196: the two key fields are read and the store built
\* from what was read is assigned
InitNewStore ==
    /\ inflight.init = "validated"
    /\ \E a \in RacyRead(config.AuthKey, inflight.args[1], inflight.keys = "auth"),
          e \in RacyRead(config.EncryptKey, inflight.args[2], inflight.keys = "encrypt") :
            config' = [config EXCEPT !.store = InitStore(a, e)]
    /\ inflight' = [inflight EXCEPT !.init = "stored",
                                    !.raced = @ \/ inflight.keys # "idle"]
    /\ ret' = Ret("Init:store")
    /\ UNCHANGED <<now, cookie, registry, resp, rand, steps>>
    /\ Record

\* Init, lines 197 to 199: the options, and the return of nil
InitOptions ==
    /\ inflight.init = "stored"
    /\ config' = [config EXCEPT !.store = [@ EXCEPT !.Options = getOptions(config)]]
    /\ inflight' = [inflight EXCEPT !.init = "idle",
                                    !.raced = @ \/ inflight.keys # "idle"]
    /\ ret' = [Ret("Init") EXCEPT !.pre = inflight.pre]
    /\ UNCHANGED <<now, cookie, registry, resp, rand, steps>>
    /\ Record

\* Keys(authKey, encryptkey) is entered
KeysEnter(authKey, encryptkey) ==
    /\ inflight.keys = "idle"
    /\ Enter
    /\ inflight' = [inflight EXCEPT !.keys = "auth", !.args = <<authKey, encryptkey>>,
                                    !.raced = @ \/ inflight.init # "idle"]
    /\ ret' = [Ret("Keys:enter") EXCEPT !.arg = <<authKey, encryptkey>>]
    /\ UNCHANGED <<config, now, cookie, registry, resp, rand>>
    /\ Record

\* line 347: config.AuthKey = authKey
KeysAuthKey ==
    /\ inflight.keys = "auth"
    /\ config' = [config EXCEPT !.AuthKey = inflight.args[1]]
    /\ inflight' = [inflight EXCEPT !.keys = "encrypt",
                                    !.raced = @ \/ inflight.init # "idle"]
    /\ ret' = [Ret("Keys:auth") EXCEPT !.arg = inflight.args]
    /\ UNCHANGED <<now, cookie, registry, resp, rand, steps>>
    /\ Record

\* line 348: config.EncryptKey = encryptkey, and the return
KeysEncryptKey ==
    /\ inflight.keys = "encrypt"
    /\ config' = [config EXCEPT !.EncryptKey = inflight.args[2]]
    /\ inflight' = [inflight EXCEPT !.keys = "idle",
                                    !.raced = @ \/ inflight.init # "idle"]
    /\ ret' = [Ret("Keys") EXCEPT !.arg = inflight.args]
    /\ UNCHANGED <<now, cookie, registry, resp, rand, steps>>
    /\ Record

RaceKeys == {<<UserAuthKey, UserEncryptKey>>, <<"", "">>}

NextRace ==
    \/ InitValidate
    \/ InitNewStore
    \/ InitOptions
    \/ \E k \in RaceKeys : KeysEnter(k[1], k[2])
    \/ KeysAuthKey
    \/ KeysEncryptKey

SpecRace == Init /\ [][NextRace]_vars

-----------------------------------------------------------------------------
(* Properties of validate and Init, checked under SpecCfg.  In every state  *)
(* ret describes the call that led to it: ret.pre is the configuration the  *)
(* call found, config the one it left.                                      *)

Validated == ret.op \in {"validate", "Init"}

\* the configuration's fields, the store aside
Fields(c) == [c EXCEPT !.store = NoStore]

\* empty or whitespace only
IsBlank(str) == \A i \in 1 .. Len(str) : str[i] \in {" ", "\t", "\n", "\r"}

ValidSameSites ==
    {SameSiteDefaultMode, SameSiteLaxMode, SameSiteStrictMode, SameSiteNoneMode}

Legal(c) ==
    /\ ~IsBlank(c.Domain)
    /\ ~IsBlank(c.Path)
    /\ c.MaxAge >= Second
    /\ c.SameSite \in ValidSameSites
    /\ Len(c.AuthKey) = 64
    /\ Len(c.EncryptKey) = 32

\* C4: when validate returns nil the configuration is legal (Domain and Path
\* not blank, MaxAge at least a second, SameSite one of the four values, keys
\* of 64 and 32 characters); otherwise it returned one of the three errors.
C4_ValidatedIsLegal ==
    Validated =>
        /\ ret.err = Nil => Legal(config)
        /\ ret.err # Nil =>
              ret.err \in {ErrMaxAgeTooShort, ErrAuthKeyWrongSize, ErrEncyptKeyWrongSize}

C4_Witness ==
    /\ ret.op = "validate"
    /\ ret.err = Nil
    /\ ~Legal(ret.pre)
    /\ IsBlank(ret.pre.Domain) /\ ret.pre.SameSite = 0 /\ ret.pre.EncryptKey = ""

\* C5 as stated: a MaxAge of a second or more is left unchanged; with a MaxAge
\* under a second validate fails with ErrMaxAgeTooShort and leaves every other
\* field as it was.
C5_MaxAgeOriginal ==
    Validated =>
        /\ ret.pre.MaxAge >= Second => config.MaxAge = ret.pre.MaxAge
        /\ ret.pre.MaxAge < Second =>
              ret.err = ErrMaxAgeTooShort /\ Fields(config) = Fields(ret.pre)

\* C5 as amended: with a MaxAge under a second validate fails with
\* ErrMaxAgeTooShort having already replaced a blank Domain by "." and a blank
\* Path by "/"; all other fields are as they were.
C5_MaxAge ==
    Validated =>
        /\ ret.pre.MaxAge >= Second =>
              config.MaxAge = ret.pre.MaxAge /\ ret.err # ErrMaxAgeTooShort
        /\ ret.pre.MaxAge < Second =>
              /\ ret.err = ErrMaxAgeTooShort
              /\ Fields(config) =
                    [Fields(ret.pre) EXCEPT
                        !.Domain = IF IsBlank(@) THEN <<".">> ELSE @,
                        !.Path = IF IsBlank(@) THEN <<"/">> ELSE @]

C5_Witness ==
    /\ ret.op = "validate"
    /\ ret.pre.MaxAge < Second
    /\ ret.err = ErrMaxAgeTooShort
    /\ ret.pre.Domain = <<" ">> /\ config.Domain = <<".">>
    /\ ret.pre.SameSite = 0 /\ config.SameSite = 0
    /\ ret.pre.AuthKey = "too short"

\* C6: with a MaxAge that passes, a non-empty AuthKey of another length than
\* 64 fails with ErrAuthKeyWrongSize; with an AuthKey that passes, a non-empty
\* EncryptKey of another length than 32 fails with ErrEncyptKeyWrongSize; keys
\* of 64 and 32 characters are accepted as they are; an empty key is replaced
\* by a generated key of the required length.
C6_KeyLengths ==
    (Validated /\ ret.pre.MaxAge >= Second) =>
        LET a == Len(ret.pre.AuthKey)
            e == Len(ret.pre.EncryptKey)
        IN  /\ a \notin {0, 64} => ret.err = ErrAuthKeyWrongSize
            /\ (a \in {0, 64} /\ e \notin {0, 32}) => ret.err = ErrEncyptKeyWrongSize
            /\ (a \in {0, 64} /\ e \in {0, 32}) => ret.err = Nil
            /\ a = 64 => config.AuthKey = ret.pre.AuthKey
            /\ e = 32 => config.EncryptKey = ret.pre.EncryptKey
            /\ a = 0 => config.AuthKey \in RandomAuthKeys /\ Len(config.AuthKey) = 64
            /\ (a \in {0, 64} /\ e = 0) =>
                  config.EncryptKey \in RandomEncryptKeys /\ Len(config.EncryptKey) = 32

C6_Witness ==
    /\ ret.op = "validate"
    /\ ret.pre.MaxAge >= Second
    /\ ret.pre.AuthKey = ""
    /\ Len(config.AuthKey) = 64
    /\ Len(ret.pre.EncryptKey) = 33
    /\ ret.err = ErrEncyptKeyWrongSize

\* C7: validate and Init on a configuration that has passed validation return
\* nil and change no field; generated keys are kept, and the store of Init is
\* built from the configuration's keys.
C7_Idempotent ==
    /\ (Validated /\ Legal(ret.pre)) =>
          ret.err = Nil /\ Fields(config) = Fields(ret.pre)
    /\ (Validated /\ ret.err = Nil) =>
          \A i \in 1 .. Len(Random32) :
              LET again == validate(config, GenerateRandomKey(authKeyLength, i),
                                            GenerateRandomKey(encryptKeyLength, i))
              IN  again.err = Nil /\ again.cfg = config
    /\ (ret.op = "Init" /\ ret.err = Nil) =>
          /\ config.store # NoStore
          /\ config.store.hashKey = config.AuthKey
          /\ config.store.blockKey = config.EncryptKey
          /\ Legal(ret.pre) =>
                /\ config.store.hashKey = ret.pre.AuthKey
                /\ config.store.blockKey = ret.pre.EncryptKey

\* Init after validate has generated the keys
C7_Witness ==
    /\ ret.op = "Init"
    /\ ret.err = Nil
    /\ ret.pre.store = NoStore
    /\ ret.pre.AuthKey \in RandomAuthKeys
    /\ ret.pre.EncryptKey \in RandomEncryptKeys
    /\ Fields(config) = Fields(ret.pre)
    /\ config.store.hashKey = ret.pre.AuthKey

\* C8: validate replaces a blank Domain by "." and a blank Path by "/" and
\* leaves any other Domain or Path unchanged.
C8_BlankDomainPath ==
    Validated =>
        /\ config.Domain = IF IsBlank(ret.pre.Domain) THEN <<".">> ELSE ret.pre.Domain
        /\ config.Path = IF IsBlank(ret.pre.Path) THEN <<"/">> ELSE ret.pre.Path

C8_Witness ==
    /\ ret.op = "validate"
    /\ ret.pre.Domain = <<" ", "\t">>
    /\ config.Domain = <<".">>
    /\ ret.pre.Path = <<" ", "a">>
    /\ config.Path = <<" ", "a">>

\* C9 as stated: validate sets a SameSite outside the four valid values to
\* Strict and leaves a valid one unchanged.
C9_SameSiteOriginal ==
    Validated =>
        config.SameSite = IF ret.pre.SameSite \in ValidSameSites
                          THEN ret.pre.SameSite ELSE SameSiteStrictMode

\* C9 as amended: it does so when MaxAge is at least a second; with a shorter
\* MaxAge validate returns before it looks at SameSite, which stays as it was.
C9_SameSite ==
    Validated =>
        config.SameSite = IF ret.pre.SameSite \in ValidSameSites \/ ret.pre.MaxAge < Second
                          THEN ret.pre.SameSite ELSE SameSiteStrictMode

C9_Witness ==
    /\ ret.op = "validate"
    /\ ret.pre.SameSite = 5
    /\ config.SameSite = SameSiteStrictMode
    /\ ret.err = ErrAuthKeyWrongSize

-----------------------------------------------------------------------------
(* Properties of the session functions, checked under Spec *)

Initialized == config.store # NoStore

DecodeErrors == {ErrMacInvalid, ErrTimestampExpired, ErrDecryption}

\* the session the registry of request r holds under the configured name
Current(r) == registry[r][config.CookieName]

\* the token of the cookie request r presents
Token(r) == cookie[r].Value

\* the cookie of request r was sealed more than thirty days ago
Stale(r) == now - Token(r).ts > 30 * Day

\* C1 as stated: on an initialized configuration AddValue(w, r, k, v) followed
\* by GetValue(r, k) returns v and no error, and GetValue for a key that the
\* request's session does not hold returns ErrKeyNotFound.  A request whose
\* cookie does not decode (see C3) gets the decoding error from both calls.
C1_RoundTrip ==
    [][ /\ (Initialized /\ ret.op = "AddValue" /\ ret'.op = "GetValue"
               /\ ret'.r = ret.r /\ ret'.key = ret.key)
            => (ret'.err = Nil /\ ret'.value = ret.val)
        /\ (Initialized /\ ret'.op = "GetValue"
               /\ registry'[ret'.r][config.CookieName] # NoSession
               /\ ret'.key \notin DOMAIN registry'[ret'.r][config.CookieName].Values)
            => ret'.err = ErrKeyNotFound ]_vars

\* C3 as stated: GetSession on a request whose cookie is absent, tampered,
\* sealed with other keys or expired returns a new, empty session and no
\* error, and no session function returns an error of the retrieval.
C3_NewSessionNoError ==
    /\ (ret.op = "GetSession" /\ ret.created /\
        (\/ cookie[ret.r] = NoCookie
         \/ ~Token(ret.r).intact
         \/ Token(ret.r).hashKey # config.store.hashKey
         \/ Token(ret.r).blockKey # config.store.blockKey
         \/ Stale(ret.r)))
          => /\ ret.err = Nil
             /\ ret.s.IsNew
             /\ ret.s.Values = NoValues
    /\ ret.op \in {"AddValue", "GetValue", "Extend", "Destroy"}
          => ret.err \notin DecodeErrors

Carries(r, c, forced) ==
    /\ resp[r].Domain = c.Domain
    /\ resp[r].Path = c.Path
    /\ resp[r].HttpOnly = c.HTTPOnly
    /\ resp[r].Secure = c.Secure
    /\ resp[r].SameSite = c.SameSite
    /\ IF forced THEN resp[r].MaxAge = -1
       ELSE c.MaxAge >= 0 /\ resp[r].MaxAge = c.MaxAge \div Second

-----------------------------------------------------------------------------
(* Extend and Destroy *)

\* request r presents a cookie that the store in use accepts: written by this
\* program under the current cookie name, sealed with the store's keys no
\* more than thirty days ago
Accepted(r) ==
    /\ hist.presented[r]
    /\ cookie[r].Name = config.CookieName
    /\ Token(r).hashKey = config.store.hashKey
    /\ Token(r).blockKey = config.store.blockKey
    /\ ~Stale(r)

C12_DestroyLikeExtend ==
    [][ (ret'.op = "Destroy" /\ ret'.err = Nil)
            => LET r == ret'.r
                   g == GetSession(config, registry[r], cookie[r], now)
                   extended == Save([g.s EXCEPT !.Options = getOptions(config)], now).cookie
               IN  /\ ret'.wrote
                   /\ resp'[r].MaxAge < 0
                   /\ resp'[r] = [extended EXCEPT !.MaxAge = resp'[r].MaxAge]
                   /\ resp'[r].Value.values = g.s.Values
                   /\ resp'[r].Domain = config.Domain /\ resp'[r].Path = config.Path
                   /\ registry'[r][config.CookieName].Values = g.s.Values
                   /\ config' = config ]_vars

\* Destroy of a session that holds a value
C12_Witness ==
    /\ ret.op = "Destroy"
    /\ ret.wrote
    /\ resp[ret.r].MaxAge = -1
    /\ resp[ret.r].Value.values = Put(NoValues, "k1", "v1")
    /\ Current(ret.r).Values = Put(NoValues, "k1", "v1")
    /\ config.MaxAge = defaultMaxAge

\* C13 as stated: a request that presents the cookie Destroy wrote gets from
\* GetSession a session with IsNew = true and none of the values stored
\* before.  The cookie of Destroy is a freshly sealed copy of the session, so
\* the store accepts it.
C13_DestroyedIsNew ==
    (ret.op = "GetSession" /\ ret.created /\ hist.source[ret.r] = "Destroy")
        => ret.s.IsNew /\ ret.s.Values = NoValues

-----------------------------------------------------------------------------
(* Init and the setters, checked under SpecSet *)

\* C14: Init returns the error validate returns for the configuration it
\* finds, whatever keys validate may draw; when that error is not nil the
\* store is the one there was before (none, or the previous one); when it is
\* nil the store is not nil.
C14_InitErrors ==
    ret.op = "Init" =>
        /\ \A i \in 1 .. Len(Random32) :
              LET v == validate(ret.pre, GenerateRandomKey(authKeyLength, i),
                                         GenerateRandomKey(encryptKeyLength, i))
              IN  ret.err = v.err
        /\ ret.err # Nil => config.store = ret.pre.store
        /\ ret.err = Nil => config.store # NoStore

\* Init fails on a configuration that was initialized before and was then
\* given a MaxAge of zero: the previous store stays
C14_Witness ==
    /\ ret.op = "Init"
    /\ ret.err = ErrMaxAgeTooShort
    /\ ret.pre.store # NoStore
    /\ config.store = ret.pre.store

-----------------------------------------------------------------------------
(* Use before and after Init, checked under Spec *)

SessionOps == {"GetSession", "AddValue", "GetValue", "GetAllValues", "Extend", "Destroy"}

\* C15 as stated: while Init has never returned nil no session function
\* completes successfully; after a successful Init all of them complete
\* without error on a request with no cookie.
C15_UsableOriginal ==
    ret.op \in SessionOps =>
        /\ ~hist.inited => ret.err # Nil
        /\ (hist.inited /\ cookie[ret.r] = NoCookie) => ret.err = Nil

\* C15 as amended: while Init has never returned nil every session function
\* fails on the nil store (a nil pointer dereference); while the configuration
\* has a store, on a request with no cookie GetSession, AddValue,
\* GetAllValues, Extend and Destroy return nil, and GetValue returns nil for a
\* key the request's session holds and ErrKeyNotFound for any other; after
\* DefaultConfig has replaced the configuration there is no store again, and
\* the functions fail on a request that has no session yet.
C15_Usable ==
    ret.op \in SessionOps =>
        /\ ~hist.inited => ret.err = Panic /\ ~ret.wrote /\ Current(ret.r) = NoSession
        /\ (Initialized /\ cookie[ret.r] = NoCookie) =>
              /\ ret.op # "GetValue" => ret.err = Nil
              /\ ret.op = "GetValue" =>
                    ret.err = IF ret.key \in DOMAIN Current(ret.r).Values
                              THEN Nil ELSE ErrKeyNotFound
        /\ (~Initialized /\ Current(ret.r) = NoSession) => ret.err = Panic

\* GetValue on a new request after Init: the key is not found
C15_Witness ==
    /\ ret.op = "GetValue"
    /\ hist.inited
    /\ Initialized
    /\ cookie[ret.r] = NoCookie
    /\ ret.created
    /\ ret.err = ErrKeyNotFound

\* C16: Keys(a, e) changes the fields AuthKey and EncryptKey and nothing
\* else, the store included; a session made by the store is sealed with the
\* keys the store was built from and a cookie sealed with them is accepted,
\* whatever the fields say, until Init builds a store from the fields.
C16_KeysNeedInit ==
    [][ /\ ret'.op = "Keys"
            => config' = [config EXCEPT !.AuthKey = ret'.arg[1], !.EncryptKey = ret'.arg[2]]
        /\ (ret'.wrote /\ ret'.created)
            => /\ resp'[ret'.r].Value.hashKey = config.store.hashKey
               /\ resp'[ret'.r].Value.blockKey = config.store.blockKey
        /\ (ret'.op = "GetSession" /\ ret'.created /\ cookie[ret'.r] # NoCookie
              /\ cookie[ret'.r].Name = config.CookieName
              /\ Token(ret'.r).intact /\ Token(ret'.r).name = config.CookieName
              /\ Token(ret'.r).hashKey = config.store.hashKey
              /\ Token(ret'.r).blockKey = config.store.blockKey
              /\ ~Stale(ret'.r))
            => ret'.err = Nil /\ ~ret'.s.IsNew /\ ret'.s.Values = Token(ret'.r).values
        /\ (ret'.op = "Init" /\ ret'.err = Nil)
            => /\ config'.store.hashKey = config'.AuthKey
               /\ config'.store.blockKey = config'.EncryptKey ]_vars

\* after Init, AddValue and Keys with other keys, the cookie of AddValue is
\* still read
C16_Witness ==
    /\ ret.op = "GetValue"
    /\ ret.created
    /\ ret.err = Nil
    /\ ret.value = "v1"
    /\ config.AuthKey = UserAuthKey
    /\ config.EncryptKey = UserEncryptKey
    /\ config.store.hashKey \in RandomAuthKeys
    /\ Token(ret.r).hashKey = config.store.hashKey

\* C17: each setter assigns its argument to its field (Keys: its two
\* arguments to AuthKey and EncryptKey) of the package level configuration and
\* leaves every other field and the store as they are; GetConfig returns the
\* pointer to that configuration and changes nothing, and an Init that
\* returns nil, called as Init() or through the pointer, leaves the package
\* level configuration with a store.
C17_Setters ==
    [][ /\ ret'.op = "Secure" => config' = [config EXCEPT !.Secure = ret'.arg]
        /\ ret'.op = "HTTPOnly" => config' = [config EXCEPT !.HTTPOnly = ret'.arg]
        /\ ret'.op = "Domain" => config' = [config EXCEPT !.Domain = ret'.arg]
        /\ ret'.op = "Path" => config' = [config EXCEPT !.Path = ret'.arg]
        /\ ret'.op = "MaxAge" => config' = [config EXCEPT !.MaxAge = ret'.arg]
        /\ ret'.op = "Keys" => config' = [config EXCEPT !.AuthKey = ret'.arg[1],
                                                         !.EncryptKey = ret'.arg[2]]
        /\ ret'.op = "CookieName" => config' = [config EXCEPT !.CookieName = ret'.arg]
        /\ ret'.op = "SameSite" => config' = [config EXCEPT !.SameSite = ret'.arg]
        /\ ret'.op = "GetConfig" => ret'.handle = ConfigHandle /\ config' = config
        /\ (ret'.op = "Init" /\ ret'.err = Nil) => config'.store # NoStore ]_vars

\* a setter with a value validate would not accept, on an initialized
\* configuration: the field has the value, the store is as it was
C17_Witness ==
    /\ ret.op = "Keys"
    /\ ret.arg = <<"too short", "">>
    /\ config.AuthKey = "too short"
    /\ config.EncryptKey = ""
    /\ config.store # NoStore
    /\ config.store.hashKey \in RandomAuthKeys
    /\ config.Domain = <<"a">>

-----------------------------------------------------------------------------
(* The typed helpers, checked under SpecTyped *)

IdGetters == {"GetUserID", "GetSessionID"}

\* C18 as stated: AddUserID(w, r, n) followed by GetUserID(r) returns n, and
\* likewise AddSessionID and GetSessionID; a getter fails with a parse error,
\* not ErrKeyNotFound, when the string under its key is no base-10 integer,
\* and with ErrKeyNotFound when the session has no such key.  On a request
\* whose cookie does not decode (see C3) every one of these calls returns the
\* decoding error instead.
C18_IdRoundTrip ==
    [][ /\ (Initialized /\ ret.op = "AddUserID" /\ ret'.op = "GetUserID" /\ ret'.r = ret.r)
            => (ret'.err = Nil /\ ret'.n = ret.n)
        /\ (Initialized /\ ret.op = "AddSessionID" /\ ret'.op = "GetSessionID"
              /\ ret'.r = ret.r)
            => (ret'.err = Nil /\ ret'.n = ret.n)
        /\ (Initialized /\ ret'.op \in IdGetters
              /\ registry'[ret'.r][config.CookieName] # NoSession)
            => LET values == registry'[ret'.r][config.CookieName].Values
               IN  /\ ret'.key \notin DOMAIN values => ret'.err = ErrKeyNotFound
                   /\ (ret'.key \in DOMAIN values /\ values[ret'.key] \in {"abc", "-"})
                         => ret'.err = ErrSyntax ]_vars

-----------------------------------------------------------------------------
(* The values of a session, checked under SpecValues *)

\* C19: on a request with no cookie the session starts empty; an AddValue
\* that returns nil leaves its key with its value, adds no other key and
\* leaves the value of every other key as it was; GetAllValues returns the
\* session's mapping.  So after any sequence of AddValue calls GetAllValues
\* returns exactly the added keys, each with the value of its last AddValue.
C19_AllValues ==
    [][ /\ (ret'.op = "AddValue" /\ ret'.err = Nil)
            => LET before == GetSession(config, registry[ret'.r], cookie[ret'.r], now).s.Values
                   after == registry'[ret'.r][config.CookieName].Values
               IN  /\ DOMAIN after = DOMAIN before \cup {ret'.key}
                   /\ after[ret'.key] = ret'.val
                   /\ \A k \in DOMAIN before \ {ret'.key} : after[k] = before[k]
        /\ (ret'.op \in {"AddValue", "GetAllValues"} /\ Initialized
              /\ cookie[ret'.r] = NoCookie)
            => ret'.err = Nil
        /\ (ret'.op = "GetAllValues" /\ ret'.err = Nil)
            => ret'.kv = registry'[ret'.r][config.CookieName].Values
        /\ (ret'.op = "GetAllValues" /\ ret'.created /\ cookie[ret'.r] = NoCookie)
            => ret'.kv = NoValues ]_vars

\* after AddValue of k1 with v1, of k2 and of k1 with v2
C19_Witness ==
    /\ ret.op = "GetAllValues"
    /\ cookie[ret.r] = NoCookie
    /\ ~ret.created
    /\ ret.err = Nil
    /\ DOMAIN ret.kv = {"k1", "k2"}
    /\ ret.kv["k1"] = "v2"
    /\ ret.kv["k2"] = "v1"

-----------------------------------------------------------------------------
(* Requests in flight together, checked under SpecPair *)

\* C20: an AddValue on one request leaves the session, the cookie and the
\* response of every other request as they were; the cookie it writes holds
\* what its own request's session held plus its own entry, which for the
\* first call on a request that presented an accepted cookie is the content
\* of that cookie plus the entry; and a request that then presents one of the
\* cookies written gets the content of that cookie, not that of the other.
C20_LastWriteWins ==
    [][ /\ (ret'.op = "AddValue" /\ ret'.err = Nil)
            => LET r == ret'.r
                   before == GetSession(config, registry[r], cookie[r], now).s.Values
                   sealed == resp'[r].Value.values
               IN  /\ \A q \in Reqs \ {r} :
                         registry'[q] = registry[q] /\ resp'[q] = resp[q]
                   /\ cookie' = cookie
                   /\ DOMAIN sealed = DOMAIN before \cup {ret'.key}
                   /\ sealed[ret'.key] = ret'.val
                   /\ \A k \in DOMAIN before \ {ret'.key} : sealed[k] = before[k]
                   /\ (ret'.created /\ Accepted(r)) => before = Token(r).values
        /\ (ret'.op = "GetAllValues" /\ ret'.created /\ Accepted(ret'.r))
            => ret'.err = Nil /\ ret'.kv = Token(ret'.r).values ]_vars

\* both requests have written: each cookie holds the original entry and its
\* own, and the second write has not seen the first
C20_Witness ==
    /\ ret.op = "AddValue"
    /\ ret.r = 2
    /\ ret.key = "k3"
    /\ resp[1] # NoCookie
    /\ resp[2] # NoCookie
    /\ DOMAIN resp[1].Value.values = {"k1", "k2"}
    /\ DOMAIN resp[2].Value.values = {"k1", "k3"}
    /\ resp[1].Value.values["k1"] = "v1"
    /\ resp[2].Value.values["k1"] = "v1"

-----------------------------------------------------------------------------
(* Initializing again after the keys were changed, checked under Spec *)

\* the token was sealed with the keys of the store
SealedUnder(tok, st) == tok.hashKey = st.hashKey /\ tok.blockKey = st.blockKey

\* C21: a successful Init binds the configuration to a store built from the
\* keys it has then.  From then on a request that presents a cookie this
\* program sealed under other keys gets no values from it: the call that makes
\* the request's session returns a decoding error, writes no cookie and leaves
\* the session new and empty; and a cookie is written only while there is a
\* store, sealed under the keys of the store of the last successful Init.
C21_Reinit ==
    /\ (ret.op = "Init" /\ ret.err = Nil) =>
          /\ config.store.hashKey = config.AuthKey
          /\ config.store.blockKey = config.EncryptKey
    /\ (/\ ret.op \in SessionOps
        /\ Initialized
        /\ ret.created
        /\ cookie[ret.r] # NoCookie
        /\ cookie[ret.r].Name = config.CookieName
        /\ hist.source[ret.r] # ""
        /\ ~SealedUnder(Token(ret.r), config.store)) =>
          /\ ret.err \in DecodeErrors
          /\ ~ret.wrote
          /\ ret.value = "" /\ ret.kv = NoValues
          /\ Current(ret.r).Values = NoValues /\ Current(ret.r).IsNew
    /\ ret.wrote => Initialized /\ SealedUnder(resp[ret.r].Value, config.store)

\* Init, AddValue, Keys with other keys, Init again: the cookie of AddValue,
\* sealed under the keys the first Init drew, is refused by GetValue
C21_Witness ==
    /\ ret.op = "GetValue"
    /\ ret.created
    /\ hist.source[ret.r] = "AddValue"
    /\ Token(ret.r).hashKey = GenerateRandomKey(authKeyLength, 1)
    /\ Token(ret.r).values # NoValues
    /\ Initialized
    /\ config.store.hashKey = UserAuthKey
    /\ config.AuthKey = UserAuthKey
    /\ ret.err = ErrMacInvalid

-----------------------------------------------------------------------------
(* Init racing with Keys, checked under SpecRace *)

\* C22: Init is not atomic with respect to Keys.  When Init returns nil and
\* no call of Keys was in progress while it ran, the store is built from the
\* keys validate left and the key fields are those keys; when a call of Keys
\* overlapped it, neither need hold (C22_Witness).
C22_InitRace ==
    (ret.op = "Init" /\ ret.err = Nil /\ ~inflight.raced) =>
        /\ config.store.hashKey = inflight.validated[1]
        /\ config.store.blockKey = inflight.validated[2]
        /\ config.AuthKey = config.store.hashKey
        /\ config.EncryptKey = config.store.blockKey

\* Init has returned nil with a store whose hash key is not the auth key it
\* validated, and with an EncryptKey field that is not the store's block key
C22_Witness ==
    /\ ret.op = "Init"
    /\ ret.err = Nil
    /\ inflight.raced
    /\ config.store.hashKey # inflight.validated[1]
    /\ config.EncryptKey # config.store.blockKey

-----------------------------------------------------------------------------
(* The error of GetSession in the session functions, checked under Spec *)

\* C23: when GetSession returns a decoding error for the request, AddValue,
\* Extend and Destroy return that error, write no Set-Cookie header and leave
\* the request's sessions as GetSession left them, the session without
\* values; GetValue returns the error with the empty string and GetAllValues
\* returns it with no map.
C23_GetSessionError ==
    [][ LET r == ret'.r
            g == GetSession(config, registry[r], cookie[r], now)
        IN  (ret'.op \in {"AddValue", "Extend", "Destroy", "GetValue", "GetAllValues"}
                /\ g.err \in DecodeErrors)
            => /\ ret'.err = g.err
               /\ ~ret'.wrote
               /\ resp' = resp
               /\ registry' = [registry EXCEPT ![r] = g.reg]
               /\ registry'[r][config.CookieName].Values = NoValues
               /\ ret'.value = ""
               /\ ret'.kv = NoValues ]_vars

\* AddValue on a request whose cookie, written by this program, is refused
\* because it is older than thirty days: the error, and no cookie
C23_Witness ==
    /\ ret.op = "AddValue"
    /\ ret.err = ErrTimestampExpired
    /\ ret.created
    /\ hist.source[ret.r] # ""
    /\ Token(ret.r).values # NoValues
    /\ Current(ret.r).Values = NoValues
    /\ resp[ret.r] = NoCookie
    /\ ~ret.wrote

-----------------------------------------------------------------------------
(* The order of validate's checks, checked under SpecCfg *)

WrongSize(key, length) == Len(key) \notin {0, length}

\* C24: validate checks the max-age, then the auth key, then the encrypt key.
\* With a MaxAge under a second it returns ErrMaxAgeTooShort whatever the keys
\* are; otherwise, with an auth key that is neither empty nor 64 characters
\* long, ErrAuthKeyWrongSize whatever the encrypt key is; it returns
\* ErrEncyptKeyWrongSize only when max-age and auth key are acceptable and the
\* encrypt key is neither empty nor 32 characters long.
C24_ErrorOrder ==
    Validated =>
        /\ ret.pre.MaxAge < Second => ret.err = ErrMaxAgeTooShort
        /\ (ret.pre.MaxAge >= Second /\ WrongSize(ret.pre.AuthKey, authKeyLength))
              => ret.err = ErrAuthKeyWrongSize
        /\ ret.err = ErrEncyptKeyWrongSize <=>
              /\ ret.pre.MaxAge >= Second
              /\ ~WrongSize(ret.pre.AuthKey, authKeyLength)
              /\ WrongSize(ret.pre.EncryptKey, encryptKeyLength)

\* validate of a configuration in which all three are wrong
C24_Witness ==
    /\ ret.op = "validate"
    /\ ret.pre.MaxAge < Second
    /\ WrongSize(ret.pre.AuthKey, authKeyLength)
    /\ WrongSize(ret.pre.EncryptKey, encryptKeyLength)
    /\ ret.err = ErrMaxAgeTooShort

-----------------------------------------------------------------------------
(* DefaultConfig after Init, checked under Spec *)

\* C25: DefaultConfig replaces the whole package level configuration: the
\* fields get their defaults, the keys are empty and there is no store, and
\* only a successful Init gives the configuration a store again.  While there
\* is no store no session function writes a cookie, AddValue, Extend and
\* Destroy fail, and every session function fails on the nil store for a
\* request that has no session yet.
C25_DefaultConfigResets ==
    [][ /\ ret'.op = "DefaultConfig" =>
              /\ config' = NewConfig
              /\ config'.AuthKey = "" /\ config'.EncryptKey = ""
              /\ config'.store = NoStore
        /\ (~Initialized /\ Initialized') => (ret'.op = "Init" /\ ret'.err = Nil)
        /\ (ret'.op \in SessionOps /\ ~Initialized) =>
              /\ ~ret'.wrote
              /\ resp' = resp
              /\ ret'.op \in {"AddValue", "Extend", "Destroy"} => ret'.err # Nil
              /\ registry[ret'.r][config.CookieName] = NoSession =>
                    ret'.err = Panic /\ registry' = registry ]_vars

\* after Init and AddValue, DefaultConfig: the request that brings the cookie
\* of AddValue back is not served
C25_Witness ==
    /\ hist.inited
    /\ config = NewConfig
    /\ ret.op = "GetValue"
    /\ cookie[ret.r] # NoCookie
    /\ hist.source[ret.r] = "AddValue"
    /\ ret.err = Panic

-----------------------------------------------------------------------------
(* CookieName changed after Init, checked under Spec *)

\* C26: every session function takes the cookie name from the configuration
\* when it is called.  A call that makes the request's session while the
\* request's cookie has another name than the configured one finds no values:
\* GetSession returns a new, empty session, GetValue ErrKeyNotFound,
\* GetAllValues nothing, and AddValue saves its own pair only; and every
\* cookie written has the name the configuration has then.
C26_CookieNameRead ==
    /\ ret.wrote =>
          /\ resp[ret.r].Name = config.CookieName
          /\ resp[ret.r].Value.name = config.CookieName
    /\ (/\ ret.op \in SessionOps
        /\ Initialized
        /\ ret.created
        /\ cookie[ret.r] # NoCookie
        /\ cookie[ret.r].Name # config.CookieName) =>
          /\ ret.op = "GetValue" => ret.err = ErrKeyNotFound /\ ret.value = ""
          /\ ret.op # "GetValue" => ret.err = Nil
          /\ ret.op = "GetAllValues" => ret.kv = NoValues
          /\ ret.op = "GetSession" => ret.s.Values = NoValues /\ ret.s.IsNew
          /\ ret.op = "AddValue" =>
                resp[ret.r].Value.values = Put(NoValues, ret.key, ret.val)
          /\ ret.op \in {"Extend", "Destroy"} => resp[ret.r].Value.values = NoValues

\* Init, AddValue, CookieName("test"): GetValue on the request that brings
\* the cookie of AddValue back, still sealed under the store's keys, does not
\* find the key the cookie holds
C26_Witness ==
    /\ ret.op = "GetValue"
    /\ ret.created
    /\ config.CookieName = "test"
    /\ cookie[ret.r] # NoCookie
    /\ cookie[ret.r].Name = defaultCookieName
    /\ hist.source[ret.r] = "AddValue"
    /\ Token(ret.r).intact
    /\ SealedUnder(Token(ret.r), config.store)
    /\ ret.key \in DOMAIN Token(ret.r).values
    /\ ret.err = ErrKeyNotFound

====
